---- MODULE Spec2Model ----
(***************************************************************************)
(* A model of models.py: the NearEarthObject and CloseApproach records,    *)
(* their constructors, derived values and renderings, and the linking pass *)
(* that connects approaches to objects.                                    *)
(*                                                                         *)
(* Python values are records [t, s, n, b]: the runtime type t, and the     *)
(* payload in s (str), n (int; a float holds hundredths) or b (bool).      *)
(* Text is TLA+ strings, built by concatenation as the f-strings build it. *)
(***************************************************************************)
EXTENDS Integers, Sequences, FiniteSets, TLC

VARIABLES
    neos,      \* the NearEarthObject instances constructed so far, by reference 1..Len
    cas,       \* the CloseApproach instances constructed so far, by reference 1..Len
    linkLog,   \* the link steps of the linking pass so far: <<approach, object>> in order
    call       \* the last operation called: its name, receiver, arguments and outcome

vars == <<neos, cas, linkLog, call>>

(***************************************************************************)
(* Bounds of the model.                                                    *)
(***************************************************************************)
MaxNeos == 2
MaxApproaches == 2
MaxCallObjects == 1

(***************************************************************************)
(* Python values.                                                          *)
(***************************************************************************)
PyStr(x) == [t |-> "str", s |-> x, n |-> 0, b |-> FALSE]
PyBool(x) == [t |-> "bool", s |-> "", n |-> 0, b |-> x]
PyInt(i) == [t |-> "int", s |-> "", n |-> i, b |-> FALSE]
\* a finite float, held as an integer count of hundredths
PyFloat(h) == [t |-> "float", s |-> "", n |-> h, b |-> FALSE]
\* float('nan')
PyNaN == [t |-> "float", s |-> "nan", n |-> 0, b |-> FALSE]
PyNone == [t |-> "NoneType", s |-> "", n |-> 0, b |-> FALSE]

\* isinstance(x, types): bool is a subclass of int
isinstance(x, types) == x.t \in types \/ (x.t = "bool" /\ "int" \in types)

\* the truth value `if x` tests
Truthy(x) ==
    CASE x.t = "str" -> x.s # ""
      [] x.t = "bool" -> x.b
      [] x.t = "int" -> x.n # 0
      [] x.t = "float" -> (x.s = "nan" \/ x.n # 0)
      [] OTHER -> FALSE

\* x == lit for a string literal lit: values of another type are not equal to it
EqStr(x, lit) == x.t = "str" /\ x.s = lit

\* float(x) of a float, int or bool
ToFloat(x) ==
    CASE x.t = "float" -> x
      [] x.t = "int" -> PyFloat(x.n * 100)
      [] OTHER -> PyFloat(IF x.b THEN 100 ELSE 0)

(***************************************************************************)
(* Text formatting.                                                        *)
(***************************************************************************)
Digit(d) == SubSeq("0123456789", d + 1, d + 1)

RECURSIVE NatStr(_)
NatStr(k) == IF k < 10 THEN Digit(k) ELSE NatStr(k \div 10) \o Digit(k % 10)

RECURSIVE Zeros(_)
Zeros(k) == IF k <= 0 THEN "" ELSE "0" \o Zeros(k - 1)

Abs(i) == IF i < 0 THEN 0 - i ELSE i

\* format(x, '.<p>f') for p >= 2 of a float, int or bool
FormatFixed(x, p) ==
    LET h == ToFloat(x).n
    IN  IF x.t = "float" /\ x.s = "nan" THEN "nan"
        ELSE (IF h < 0 THEN "-" ELSE "") \o NatStr(Abs(h) \div 100) \o "."
             \o Digit((Abs(h) % 100) \div 10) \o Digit(Abs(h) % 10) \o Zeros(p - 2)

\* format(x, '') as an f-string field {x} renders it
Format(x) ==
    CASE x.t = "str" -> x.s
      [] x.t = "NoneType" -> "None"
      [] x.t = "bool" -> (IF x.b THEN "True" ELSE "False")
      [] x.t = "int" -> (IF x.n < 0 THEN "-" ELSE "") \o NatStr(Abs(x.n))
      [] OTHER -> FormatFixed(x, 2)

\* repr(x) as an f-string field {x!r} renders it
Repr(x) == IF x.t = "str" THEN "'" \o x.s \o "'" ELSE Format(x)

(***************************************************************************)
(* Outcomes of a call.                                                     *)
(***************************************************************************)
NoError == "none"
\* the spec's InvalidArgument kind
InvalidArgument == "TypeError"
AttributeError == "AttributeError"

Raise(kind) == [err |-> kind]
Return(v) == [err |-> NoError, val |-> v]

(***************************************************************************)
(* class NearEarthObject                                                   *)
(***************************************************************************)
\* NearEarthObject with the flag taken from the input's truth value
NearEarthObject_truthyHazardous(designation, name, diameter, hazardous) ==
    IF ~isinstance(designation, {"str"}) THEN Raise(InvalidArgument)
    ELSE IF ~isinstance(name, {"str"}) THEN Raise(InvalidArgument)
    ELSE IF ~isinstance(diameter, {"float", "int"}) THEN Raise(InvalidArgument)
    ELSE IF ~isinstance(hazardous, {"bool", "str"}) THEN Raise(InvalidArgument)
    ELSE Return([designation |-> IF Truthy(designation) THEN designation ELSE PyNone,
                 name |-> IF Truthy(name) THEN name ELSE PyNone,
                 diameter |-> diameter,
                 hazardous |-> PyBool(Truthy(hazardous)),
                 approaches |-> <<>>])

\* NearEarthObject with designation and name stored as given
NearEarthObject_storesEmpty(designation, name, diameter, hazardous) ==
    IF ~isinstance(designation, {"str"}) THEN Raise(InvalidArgument)
    ELSE IF ~isinstance(name, {"str"}) THEN Raise(InvalidArgument)
    ELSE IF ~isinstance(diameter, {"float", "int"}) THEN Raise(InvalidArgument)
    ELSE IF ~isinstance(hazardous, {"bool", "str"}) THEN Raise(InvalidArgument)
    ELSE Return([designation |-> designation,
                 name |-> name,
                 diameter |-> diameter,
                 hazardous |-> PyBool(EqStr(hazardous, "Y")),
                 approaches |-> <<>>])

NearEarthObject(designation, name, diameter, hazardous) ==
    IF ~isinstance(designation, {"str"}) THEN Raise(InvalidArgument)
    ELSE IF ~isinstance(name, {"str"}) THEN Raise(InvalidArgument)
    ELSE IF ~isinstance(diameter, {"float", "int"}) THEN Raise(InvalidArgument)
    ELSE IF ~isinstance(hazardous, {"bool", "str"}) THEN Raise(InvalidArgument)
    ELSE Return([designation |-> IF Truthy(designation) THEN designation ELSE PyNone,
                 name |-> IF Truthy(name) THEN name ELSE PyNone,
                 diameter |-> diameter,
                 hazardous |-> PyBool(EqStr(hazardous, "Y")),
                 approaches |-> <<>>])

\* fullname with the parenthesised name rendered whether or not there is one
fullname_alwaysNamed(self) ==
    Format(self.designation) \o " (" \o Format(self.name) \o ")"

fullname(self) ==
    IF Truthy(self.name)
    THEN Format(self.designation) \o " (" \o Format(self.name) \o ")"
    ELSE Format(self.designation)

NearEarthObject_str(self) ==
    IF Truthy(self.hazardous)
    THEN "NEO " \o fullname(self) \o " has a diameter of "
         \o FormatFixed(self.diameter, 3) \o " km and is potentially hazardous."
    ELSE "NEO " \o fullname(self) \o " has a diameter of "
         \o FormatFixed(self.diameter, 3) \o " km and is not potentially hazardous."

NearEarthObject_repr(self) ==
    "NearEarthObject(self.designation=" \o Repr(self.designation)
    \o ", self.name=" \o Repr(self.name)
    \o ", self.diameter=" \o FormatFixed(self.diameter, 3)
    \o ", self.hazardous=" \o Repr(self.hazardous) \o ")"

(***************************************************************************)
(* helpers.cd_to_datetime and helpers.datetime_to_str: the time-format     *)
(* contract "YYYY-MM-DD HH:MM" (24-hour, no seconds).                      *)
(***************************************************************************)
ParseError == "ParseError"

NoTime == [present |-> FALSE, year |-> 0, month |-> 0, day |-> 0, hour |-> 0, minute |-> 0]

IsDigit(c) == c \in {"0", "1", "2", "3", "4", "5", "6", "7", "8", "9"}

DigitVal(c) == CHOOSE d \in 0..9 : Digit(d) = c

RECURSIVE IsDigits(_)
IsDigits(s) == IF s = "" THEN TRUE ELSE IsDigit(Head(s)) /\ IsDigits(Tail(s))

RECURSIVE Num(_)
Num(s) == IF s = "" THEN 0 ELSE Num(SubSeq(s, 1, Len(s) - 1)) * 10 + DigitVal(SubSeq(s, Len(s), Len(s)))

IsLeap(y) == (y % 4 = 0 /\ y % 100 # 0) \/ y % 400 = 0

DaysIn(y, m) ==
    IF m = 2 THEN (IF IsLeap(y) THEN 29 ELSE 28)
    ELSE IF m \in {4, 6, 9, 11} THEN 30 ELSE 31

\* the digits of k, zero-padded on the left to width w
RECURSIVE Pad(_, _)
Pad(k, w) == IF w <= 1 THEN NatStr(k) ELSE IF Len(NatStr(k)) >= w THEN NatStr(k) ELSE Pad(k \div 10, w - 1) \o Digit(k % 10)

cd_to_datetime(s) ==
    IF /\ Len(s) = 16
       /\ IsDigits(SubSeq(s, 1, 4)) /\ SubSeq(s, 5, 5) = "-"
       /\ IsDigits(SubSeq(s, 6, 7)) /\ SubSeq(s, 8, 8) = "-"
       /\ IsDigits(SubSeq(s, 9, 10)) /\ SubSeq(s, 11, 11) = " "
       /\ IsDigits(SubSeq(s, 12, 13)) /\ SubSeq(s, 14, 14) = ":"
       /\ IsDigits(SubSeq(s, 15, 16))
    THEN LET y == Num(SubSeq(s, 1, 4))
             mo == Num(SubSeq(s, 6, 7))
             d == Num(SubSeq(s, 9, 10))
             h == Num(SubSeq(s, 12, 13))
             mi == Num(SubSeq(s, 15, 16))
         IN  IF y >= 1 /\ mo \in 1..12 /\ d >= 1 /\ d <= DaysIn(y, mo) /\ h <= 23 /\ mi <= 59
             THEN Return([present |-> TRUE, year |-> y, month |-> mo, day |-> d,
                          hour |-> h, minute |-> mi])
             ELSE Raise(ParseError)
    ELSE Raise(ParseError)

datetime_to_str(dt) ==
    Pad(dt.year, 4) \o "-" \o Pad(dt.month, 2) \o "-" \o Pad(dt.day, 2)
    \o " " \o Pad(dt.hour, 2) \o ":" \o Pad(dt.minute, 2)

(***************************************************************************)
(* class CloseApproach.  neo is a reference into neos, 0 for None.         *)
(***************************************************************************)
CloseApproach(designation, time, distance, velocity, neo) ==
    IF ~isinstance(designation, {"str"}) THEN Raise(InvalidArgument)
    ELSE IF ~isinstance(time, {"str"}) THEN Raise(InvalidArgument)
    ELSE IF ~isinstance(velocity, {"float", "int"}) THEN Raise(InvalidArgument)
    ELSE IF ~isinstance(distance, {"float", "int"}) THEN Raise(InvalidArgument)
    ELSE LET parsed == IF Truthy(time) THEN cd_to_datetime(time.s) ELSE Return(NoTime)
         IN  IF parsed.err # NoError THEN Raise(parsed.err)
             ELSE Return([_designation |-> IF Truthy(designation) THEN designation ELSE PyNone,
                          time |-> parsed.val,
                          distance |-> ToFloat(distance),
                          velocity |-> ToFloat(velocity),
                          neo |-> neo])

\* time_str through the datetime's default text, which carries seconds
time_str_withSeconds(self) ==
    IF self.time.present THEN datetime_to_str(self.time) \o ":00" ELSE ""

time_str(self) == IF self.time.present THEN datetime_to_str(self.time) ELSE ""

CloseApproach_str(self) ==
    IF self.neo = 0 THEN Raise(AttributeError)
    ELSE Return("On " \o time_str(self) \o ", '" \o fullname(neos[self.neo])
                \o "' approaches Earth at a distance of self.distance="
                \o FormatFixed(self.distance, 2)
                \o " au and a velocity of self.velocity="
                \o FormatFixed(self.velocity, 2) \o " km/s.")

CloseApproach_repr(self) ==
    "CloseApproach(time=" \o Repr(PyStr(time_str(self)))
    \o ", distance=" \o FormatFixed(self.distance, 2)
    \o ", velocity=" \o FormatFixed(self.velocity, 2)
    \o ", neo=" \o (IF self.neo = 0 THEN "None" ELSE NearEarthObject_repr(neos[self.neo]))
    \o ")"

(***************************************************************************)
(* Inputs.  The catalog inputs are well-typed records of a data set; the   *)
(* wide inputs add the empty, the missing and the ill-typed values.        *)
(***************************************************************************)
CatalogDesignations == {PyStr(""), PyStr("433"), PyStr("2015 CD3")}

CatalogNeoArgs ==
    {<<d, n, PyFloat(1684), PyStr("N")>> : d \in CatalogDesignations, n \in {PyStr(""), PyStr("Eros")}}

CatalogApproachArgs ==
    {<<d, PyStr("2020-06-01 00:00"), PyFloat(45), PyFloat(720)>> : d \in CatalogDesignations}

\* every well-typed combination, and every combination of well- and ill-typed fields
WideNeoArgs ==
    {<<d, n, k, h>> :
        d \in {PyStr(""), PyStr("433"), PyStr("2015 CD3")},
        n \in {PyStr(""), PyStr("Eros"), PyStr("Bruce")},
        k \in {PyFloat(1684), PyNaN, PyInt(1), PyBool(TRUE)},
        h \in {PyStr("Y"), PyStr("N"), PyStr(""), PyStr("y"), PyBool(TRUE), PyBool(FALSE)}}
    \cup
    {<<d, n, k, h>> :
        d \in {PyStr("433"), PyInt(433)},
        n \in {PyStr("Eros"), PyNone},
        k \in {PyFloat(1684), PyStr("16.84"), PyNone},
        h \in {PyStr("N"), PyInt(1), PyNone}}

ValidTimes ==
    {"2020-01-01 12:30", "2020-06-01 00:00", "1999-12-31 23:59", "2020-02-29 07:05",
     "2000-02-29 00:00", "2020-04-30 09:09", "0999-01-01 01:05"}

MalformedTimes ==
    {"2019-02-29 07:05", "1900-02-29 00:00", "2020-04-31 09:09", "2020-13-01 10:00",
     "2020-00-10 10:00", "2020-01-01 24:00", "2020-01-01 12:60", "2020-1-1 12:30",
     "2020-01-01", "2020-01-01 12:30:00", "2020-Jan-01 12:30", "not a time"}

WideTimes == {PyStr(t) : t \in {""} \cup ValidTimes \cup MalformedTimes} \cup {PyInt(2020), PyNone}

\* approaches that differ in their designation, time string and distance
WideTimeArgs ==
    {<<d, t, x, PyFloat(720)>> :
        d \in {PyStr(""), PyStr("433")}, t \in WideTimes, x \in {PyFloat(45), PyNaN}}

\* every well-typed combination, and every combination of well- and ill-typed fields
WideApproachArgs ==
    {<<d, t, x, v>> :
        d \in {PyStr(""), PyStr("433")},
        t \in {PyStr(""), PyStr("2020-06-01 00:00")},
        x \in {PyFloat(45), PyFloat(5), PyNaN, PyInt(1), PyBool(TRUE)},
        v \in {PyFloat(720), PyFloat(1234), PyInt(7)}}
    \cup
    {<<d, t, x, v>> :
        d \in {PyStr("433"), PyNone},
        t \in {PyStr("2020-06-01 00:00"), PyInt(2020)},
        x \in {PyFloat(45), PyStr("0.45")},
        v \in {PyFloat(720), PyNone}}

\* the objects the wide approaches may refer to
ReferredNeoArgs ==
    {<<PyStr("433"), n, PyFloat(1684), PyStr("N")>> : n \in {PyStr(""), PyStr("Eros")}}

(***************************************************************************)
(* The operations, as steps.                                               *)
(***************************************************************************)
Called(op, self, args, neo, err, ret) ==
    [op |-> op, self |-> self, args |-> args, neo |-> neo, err |-> err, ret |-> ret]

Init ==
    /\ neos = <<>>
    /\ cas = <<>>
    /\ linkLog = <<>>
    /\ call = Called("", 0, <<>>, 0, NoError, "")

\* NewNearEarthObject with one approaches list shared by every object (a mutable
\* default argument): the new object starts with the first object's approaches
NewNearEarthObject_sharedApproaches(inputs, max) ==
    \E a \in inputs :
        /\ Len(neos) < max
        /\ LET r == NearEarthObject(a[1], a[2], a[3], a[4])
               shared == IF Len(neos) > 0 THEN neos[1].approaches ELSE <<>>
           IN  IF r.err = NoError
               THEN /\ neos' = Append(neos, [r.val EXCEPT !.approaches = shared])
                    /\ call' = Called("NearEarthObject", Len(neos) + 1, a, 0, NoError, "")
               ELSE /\ neos' = neos
                    /\ call' = Called("NearEarthObject", 0, a, 0, r.err, "")
        /\ UNCHANGED <<cas, linkLog>>

\* NearEarthObject(designation, name, diameter, hazardous)
NewNearEarthObject(inputs, max) ==
    \E a \in inputs :
        /\ Len(neos) < max
        /\ LET r == NearEarthObject(a[1], a[2], a[3], a[4])
           IN  IF r.err = NoError
               THEN /\ neos' = Append(neos, r.val)
                    /\ call' = Called("NearEarthObject", Len(neos) + 1, a, 0, NoError, "")
               ELSE /\ neos' = neos
                    /\ call' = Called("NearEarthObject", 0, a, 0, r.err, "")
        /\ UNCHANGED <<cas, linkLog>>

\* CloseApproach(designation, time, distance, velocity, neo)
NewCloseApproach(inputs, max) ==
    \E a \in inputs, neo \in 0..Len(neos) :
        /\ Len(cas) < max
        /\ LET r == CloseApproach(a[1], a[2], a[3], a[4], neo)
           IN  IF r.err = NoError
               THEN /\ cas' = Append(cas, r.val)
                    /\ call' = Called("CloseApproach", Len(cas) + 1, a, neo, NoError, "")
               ELSE /\ cas' = cas
                    /\ call' = Called("CloseApproach", 0, a, neo, r.err, "")
        /\ UNCHANGED <<neos, linkLog>>

Linked == {linkLog[i][1] : i \in 1..Len(linkLog)}

\* One step of the linking pass: approach a, not yet visited, is resolved by its
\* raw designation to a matching object o; then a.neo = o and o.approaches.append(a).
Link ==
    \E a \in 1..Len(cas), o \in 1..Len(neos) :
        /\ a \notin Linked
        /\ cas[a]._designation # PyNone
        /\ neos[o].designation = cas[a]._designation
        /\ cas' = [cas EXCEPT ![a].neo = o]
        /\ neos' = [neos EXCEPT ![o].approaches = Append(@, a)]
        /\ linkLog' = Append(linkLog, <<a, o>>)
        /\ call' = Called("link", a, <<>>, o, NoError, "")

\* neo.fullname
ReadFullname ==
    \E o \in 1..Len(neos) :
        /\ call' = Called("fullname", o, <<>>, 0, NoError, fullname(neos[o]))
        /\ UNCHANGED <<neos, cas, linkLog>>

\* str(neo)
StrNearEarthObject ==
    \E o \in 1..Len(neos) :
        /\ call' = Called("NearEarthObject.__str__", o, <<>>, 0, NoError, NearEarthObject_str(neos[o]))
        /\ UNCHANGED <<neos, cas, linkLog>>

\* repr(neo)
ReprNearEarthObject ==
    \E o \in 1..Len(neos) :
        /\ call' = Called("NearEarthObject.__repr__", o, <<>>, 0, NoError, NearEarthObject_repr(neos[o]))
        /\ UNCHANGED <<neos, cas, linkLog>>

\* approach.time_str
ReadTimeStr ==
    \E a \in 1..Len(cas) :
        /\ call' = Called("time_str", a, <<>>, 0, NoError, time_str(cas[a]))
        /\ UNCHANGED <<neos, cas, linkLog>>

\* str(approach)
StrCloseApproach ==
    \E a \in 1..Len(cas) :
        /\ LET r == CloseApproach_str(cas[a])
           IN  call' = Called("CloseApproach.__str__", a, <<>>, 0, r.err,
                              IF r.err = NoError THEN r.val ELSE "")
        /\ UNCHANGED <<neos, cas, linkLog>>

\* repr(approach)
ReprCloseApproach ==
    \E a \in 1..Len(cas) :
        /\ call' = Called("CloseApproach.__repr__", a, <<>>, 0, NoError, CloseApproach_repr(cas[a]))
        /\ UNCHANGED <<neos, cas, linkLog>>

(***************************************************************************)
(* Spec: a catalog is loaded and linked, and its entities are read.        *)
(***************************************************************************)
Next ==
    \/ NewNearEarthObject(CatalogNeoArgs, MaxNeos)
    \/ NewCloseApproach(CatalogApproachArgs, MaxApproaches)
    \/ Link

Spec == Init /\ [][Next]_vars

(***************************************************************************)
(* SpecNeo: NearEarthObject is constructed from the wide inputs and read.  *)
(***************************************************************************)
NextNeo ==
    \/ NewNearEarthObject(WideNeoArgs, MaxCallObjects)
    \/ ReadFullname
    \/ StrNearEarthObject
    \/ ReprNearEarthObject

SpecNeo == Init /\ [][NextNeo]_vars

(***************************************************************************)
(* SpecApproach: CloseApproach is constructed from the wide inputs, with   *)
(* or without a neo, linked and rendered.                                  *)
(***************************************************************************)
NextApproach ==
    \/ NewNearEarthObject(ReferredNeoArgs, MaxCallObjects)
    \/ NewCloseApproach(WideApproachArgs, MaxCallObjects)
    \/ Link
    \/ ReadFullname
    \/ ReadTimeStr
    \/ StrCloseApproach
    \/ ReprCloseApproach

SpecApproach == Init /\ [][NextApproach]_vars

(***************************************************************************)
(* SpecTime: CloseApproach is constructed from the wide time strings and   *)
(* its time is read back.                                                  *)
(***************************************************************************)
NextTime ==
    \/ NewCloseApproach(WideTimeArgs, MaxCallObjects)
    \/ ReadTimeStr

SpecTime == Init /\ [][NextTime]_vars

(***************************************************************************)
(* The claims.                                                             *)
(***************************************************************************)
Constructed(op) == call.op = op /\ call.err = NoError

IllTyped(x, types) == x.t \notin types

\* C1: a NearEarthObject construction that succeeds leaves hazardous true if and
\* only if the raw hazardous input is exactly the string "Y"; "N", "", True and
\* False all yield false.
C1_HazardousIffY ==
    Constructed("NearEarthObject") =>
        /\ neos[call.self].hazardous = PyBool(call.args[4] = PyStr("Y"))
        /\ call.args[4] \in {PyStr("N"), PyStr(""), PyBool(TRUE), PyBool(FALSE)}
               => neos[call.self].hazardous = PyBool(FALSE)

C1_Witness ==
    /\ Constructed("NearEarthObject")
    /\ call.args[4] = PyBool(TRUE)
    /\ neos[call.self].hazardous = PyBool(FALSE)

\* C2: a NearEarthObject construction that succeeds leaves designation None if
\* and only if the raw designation was the empty string, and name None if and only
\* if the raw name was the empty string; a non-empty input is stored unchanged.
C2_EmptyIsAbsent ==
    Constructed("NearEarthObject") =>
        LET self == neos[call.self]
        IN  /\ self.designation = PyNone <=> call.args[1] = PyStr("")
            /\ self.name = PyNone <=> call.args[2] = PyStr("")
            /\ call.args[1] # PyStr("") => self.designation = call.args[1]
            /\ call.args[2] # PyStr("") => self.name = call.args[2]

C2_Witness ==
    /\ Constructed("NearEarthObject")
    /\ call.args[1] = PyStr("")
    /\ call.args[2] = PyStr("Bruce")
    /\ neos[call.self].designation = PyNone
    /\ neos[call.self].name = PyStr("Bruce")

\* C3: constructing a NearEarthObject fails with InvalidArgument exactly when the
\* designation is not a string, or the name is not a string, or the diameter is
\* neither float- nor integer-typed (a boolean diameter fails), or hazardous is
\* neither boolean nor string; with four well-typed inputs it succeeds.
C3_FailsIffIllTyped ==
    call.op = "NearEarthObject" =>
        /\ call.err \in {NoError, InvalidArgument}
        /\ call.err = InvalidArgument <=>
               \/ IllTyped(call.args[1], {"str"})
               \/ IllTyped(call.args[2], {"str"})
               \/ IllTyped(call.args[3], {"float", "int"})
               \/ IllTyped(call.args[4], {"bool", "str"})

\* C4: in every reachable state a CloseApproach whose neo is present has
\* neo.designation equal to its private raw designation _designation.
C4_NeoDesignationMatches ==
    \A a \in 1..Len(cas) :
        cas[a].neo # 0 => neos[cas[a].neo].designation = cas[a]._designation

\* C5: the only error kind any operation produces is InvalidArgument, and only a
\* construction with an ill-typed field produces it; constructing a CloseApproach
\* with a time that does not parse, and rendering a CloseApproach whose neo is
\* absent, raise nothing else.
C5_OnlyInvalidArgument ==
    /\ call.err \in {NoError, InvalidArgument}
    /\ call.err = InvalidArgument =>
           \/ /\ call.op = "NearEarthObject"
              /\ \/ IllTyped(call.args[1], {"str"})
                 \/ IllTyped(call.args[2], {"str"})
                 \/ IllTyped(call.args[3], {"float", "int"})
                 \/ IllTyped(call.args[4], {"bool", "str"})
           \/ /\ call.op = "CloseApproach"
              /\ \/ IllTyped(call.args[1], {"str"})
                 \/ IllTyped(call.args[2], {"str"})
                 \/ IllTyped(call.args[3], {"float", "int"})
                 \/ IllTyped(call.args[4], {"float", "int"})

\* C6: the human-readable rendering of a linked CloseApproach is exactly
\* "On <time_str>, '<neo.fullname>' approaches Earth at a distance of <distance to
\* 2 decimals> au and a velocity of <velocity to 2 decimals> km/s.", with nothing
\* but the number before " au" and before " km/s.".
C6_StrIsTheSentence ==
    (call.op = "CloseApproach.__str__" /\ cas[call.self].neo # 0) =>
        LET self == cas[call.self]
        IN  /\ call.err = NoError
            /\ call.ret = "On " \o time_str(self) \o ", '" \o fullname(neos[self.neo])
                          \o "' approaches Earth at a distance of "
                          \o FormatFixed(self.distance, 2)
                          \o " au and a velocity of "
                          \o FormatFixed(self.velocity, 2) \o " km/s."

\* C7: fullname is "<designation> (<name>)" when the name is present and just
\* "<designation>" when it is absent ("2015 CD3 (Bruce)", "2015 CD3"); it depends
\* on designation and name alone, and reading it changes no field.
C7_Fullname ==
    /\ [](call.op = "fullname" =>
            LET self == neos[call.self]
                designation == IF self.designation = PyNone THEN "None" ELSE self.designation.s
            IN  /\ call.err = NoError
                /\ self.name # PyNone => call.ret = designation \o " (" \o self.name.s \o ")"
                /\ self.name = PyNone => call.ret = designation
                /\ (self.designation = PyStr("2015 CD3") /\ self.name = PyStr("Bruce"))
                       => call.ret = "2015 CD3 (Bruce)"
                /\ (self.designation = PyStr("2015 CD3") /\ self.name = PyNone)
                       => call.ret = "2015 CD3")
    /\ [][call'.op = "fullname" => (neos' = neos /\ cas' = cas)]_vars

C7_Witness ==
    /\ call.op = "fullname"
    /\ neos[call.self].name = PyStr("Bruce")
    /\ call.ret = "2015 CD3 (Bruce)"

\* the approaches linked to object o, in link order
LinkedTo(o) ==
    LET steps == SelectSeq(linkLog, LAMBDA step : step[2] = o)
    IN  [i \in 1..Len(steps) |-> steps[i][1]]

\* C8: approaches is empty after construction and only grows by the link steps:
\* after k approaches have been linked to an object its collection holds exactly
\* those k approaches in link order, each with neo equal to that object, and no
\* link to one object changes the collection of another.
C8_ApproachesAreTheLinked ==
    \A o \in 1..Len(neos) :
        /\ neos[o].approaches = LinkedTo(o)
        /\ \A i \in 1..Len(neos[o].approaches) : cas[neos[o].approaches[i]].neo = o

C8_Witness ==
    /\ Len(neos) = 2
    /\ \E o \in 1..Len(neos) : neos[o].approaches = <<2, 1>>

\* C9: a CloseApproach's neo, once present, is never reassigned to another object
\* nor reset to absent: it is set exactly once.
C9_NeoSetOnce ==
    [][\A a \in 1..Len(cas) : cas[a].neo # 0 => cas'[a].neo = cas[a].neo]_vars

\* C10: a CloseApproach constructed with the empty time string has time absent
\* and time_str empty; constructed with a valid "YYYY-MM-DD HH:MM" string it has
\* time present and time_str equal to that string; time_str is empty if and only
\* if time is absent.
C10_TimeStrRoundTrip ==
    /\ (call.op = "CloseApproach" /\ call.args[2].t = "str" /\ call.args[2].s \in ValidTimes)
           => call.err = NoError
    /\ Constructed("CloseApproach") =>
           LET self == cas[call.self]
               s == call.args[2].s
           IN  /\ s = "" => (~self.time.present /\ time_str(self) = "")
               /\ s # "" => (self.time.present /\ time_str(self) = s)
    /\ call.op = "time_str" =>
           /\ call.err = NoError
           /\ call.ret = "" <=> ~cas[call.self].time.present
    /\ \A a \in 1..Len(cas) : time_str(cas[a]) = "" <=> ~cas[a].time.present

C10_Witness ==
    /\ call.op = "time_str"
    /\ cas[call.self].time.present
    /\ call.ret = "2020-01-01 12:30"

====
